---- MODULE Spec2Model ----
(***************************************************************************)
(* Model of the training-app core: pace calibration (calibrate_from_race)  *)
(* and the 7-week / 3-days-per-week half-marathon plan generator           *)
(* (generate_half_marathon_plan_7w_3d).                                    *)
(*                                                                         *)
(* Dates are day numbers; day 0 is a Monday, so weekday(d) = d % 7 with    *)
(* Monday = 0 ... Sunday = 6, as date.weekday() numbers them.              *)
(* Distances, volumes and paces are Python floats in the source; here they *)
(* are exact rationals [n, d] in lowest terms, so the model states what    *)
(* the arithmetic computes without binary rounding error.                  *)
(***************************************************************************)
EXTENDS Integers, Sequences, FiniteSets, TLC

\* ------------------------------------------------------------------ bounds
\* start_date ranges over 0..MaxStartDay (every weekday occurs)
MaxStartDay == 6
\* goal_race_date - start_date ranges over -1..1 and 40..MaxGoalOffset
MaxGoalOffset == 49

\* ------------------------------------------------------- exact arithmetic
Abs(x) == IF x < 0 THEN -x ELSE x

RECURSIVE GCD(_, _)
GCD(a, b) == IF b = 0 THEN a ELSE GCD(b, a % b)

\* the rational n/d (d > 0) in lowest terms
Rat(n, d) == LET g == GCD(Abs(n), d) IN [n |-> n \div g, d |-> d \div g]

RInt(i) == [n |-> i, d |-> 1]

LCM(a, b) == (a \div GCD(a, b)) * b

RMul(a, b) ==
    LET g1 == GCD(Abs(a.n), b.d)
        g2 == GCD(Abs(b.n), a.d)
    IN  Rat((a.n \div g1) * (b.n \div g2), (a.d \div g2) * (b.d \div g1))

RDiv(a, b) == RMul(a, [n |-> b.d, d |-> b.n])

RAdd(a, b) ==
    LET l == LCM(a.d, b.d)
    IN  Rat(a.n * (l \div a.d) + b.n * (l \div b.d), l)

RSub(a, b) == RAdd(a, [n |-> -b.n, d |-> b.d])

RLt(a, b) ==
    LET l == LCM(a.d, b.d)
    IN  a.n * (l \div a.d) < b.n * (l \div b.d)

RLe(a, b) == ~RLt(b, a)

RMin(a, b) == IF RLt(b, a) THEN b ELSE a

RMax(a, b) == IF RLt(a, b) THEN b ELSE a

\* Python round(x): nearest integer, ties to the even one
PyRound(x) ==
    LET fl == x.n \div x.d
        r2 == 2 * (x.n % x.d)
    IN  IF r2 < x.d THEN fl
        ELSE IF r2 > x.d THEN fl + 1
        ELSE IF fl % 2 = 0 THEN fl ELSE fl + 1

\* date.weekday(): Monday == 0 ... Sunday == 6
weekday(d) == d % 7

\* ------------------------------------------------------------ calibration
None == [none |-> TRUE]

\* variant: the interval offset added instead of subtracted
calibrate_from_race_IntervalSlower(race_distance_km, race_time_sec) ==
    LET race_pace_sec_per_km == RDiv(race_time_sec, race_distance_km)
        threshold_pace == RAdd(race_pace_sec_per_km, RInt(8))
    IN  [ baseline_race_distance_km |-> race_distance_km,
          baseline_race_time_sec    |-> race_time_sec,
          paces |-> [ easy_min  |-> RAdd(threshold_pace, RInt(40)),
                      easy_max  |-> RAdd(threshold_pace, RInt(80)),
                      threshold |-> threshold_pace,
                      interval  |-> RAdd(threshold_pace, RInt(15)) ] ]

calibrate_from_race(race_distance_km, race_time_sec) ==
    LET race_pace_sec_per_km == RDiv(race_time_sec, race_distance_km)
        threshold_pace == RAdd(race_pace_sec_per_km, RInt(8))
        easy_min       == RAdd(threshold_pace, RInt(40))
        easy_max       == RAdd(threshold_pace, RInt(80))
        interval_pace  == RSub(threshold_pace, RInt(15))
    IN  [ baseline_race_distance_km |-> race_distance_km,
          baseline_race_time_sec    |-> race_time_sec,
          paces |-> [ easy_min  |-> easy_min,
                      easy_max  |-> easy_max,
                      threshold |-> threshold_pace,
                      interval  |-> interval_pace ] ]

\* ----------------------------------------------------------------- params
\* variant: truncation to the 0.5 km below instead of rounding
_round_km_Floor(x) ==
    LET y == RMul(x, RInt(2)) IN Rat(y.n \div y.d, 2)

_round_km(x) == Rat(PyRound(RMul(x, RInt(2))), 2)

PlanParams(weeks, days_per_week, down_week_index, long_cap_km) ==
    [ weeks             |-> weeks,
      days_per_week     |-> days_per_week,
      weekly_growth     |-> Rat(8, 100),
      down_week_index   |-> down_week_index,
      down_week_factor  |-> Rat(80, 100),
      frac_intervals    |-> Rat(25, 100),
      frac_tempo        |-> Rat(25, 100),
      frac_long         |-> Rat(50, 100),
      long_cap_km       |-> long_cap_km,
      race_week_easy_km |-> RInt(5),
      race_week_tempo_km |-> RInt(6),
      hm_distance_km    |-> Rat(211, 10) ]

\* --------------------------------------------------------- input universes
\* baseline race distances (km) and times (s) offered to calibrate_from_race
BaselineDistances == {RInt(3), RInt(5), RInt(10)}
BaselineTimes == {RInt(1200), RInt(3000)}
\* parameter values offered to generate
WeeksValues == {6, 7}
DaysPerWeekValues == {3, 4}
DownWeekIndexValues == {0, 3, 6}
LongCapValues == {RInt(12), RInt(20)}
\* keyword arguments a caller may pass beyond the declared parameters
ExtraKwargs == {"start_weekly_km", "current_long_run_km"}
KwargSets == { {}, ExtraKwargs }
\* goal_race_date - start_date: around the start, and around the final week
GoalOffsets == ((-1)..1) \cup (40..MaxGoalOffset)

VARIABLES pc, cli, profile, start_date, goal_race_date, params, kwargs,
          weekly_km, w, km_intervals, km_tempo, km_long,
          workouts, plan, error

vars == << pc, cli, profile, start_date, goal_race_date, params, kwargs,
           weekly_km, w, km_intervals, km_tempo, km_long,
           workouts, plan, error >>

locals == << weekly_km, w, km_intervals, km_tempo, km_long, workouts >>
args == << start_date, goal_race_date, params, kwargs >>

Init ==
    /\ pc = "start"
    /\ cli = None
    /\ profile = None
    /\ start_date = 0
    /\ goal_race_date = 0
    /\ params = None
    /\ kwargs = {}
    /\ weekly_km = << >>
    /\ w = 0
    /\ km_intervals = RInt(0)
    /\ km_tempo = RInt(0)
    /\ km_long = RInt(0)
    /\ workouts = << >>
    /\ plan = None
    /\ error = None

\* the caller calibrates a profile from one baseline race
Calibrate ==
    /\ pc = "start"
    /\ \E dist \in BaselineDistances, t \in BaselineTimes :
          profile' = calibrate_from_race(dist, t)
    /\ pc' = "calibrated"
    /\ UNCHANGED << cli, args, locals, plan, error >>

\* ------------------------------------------------ errors raised by generate
TypeError == [class |-> "TypeError", message |-> "unexpected keyword argument"]
DaysPerWeekError ==
    [class |-> "ValueError", message |-> "This generator is fixed to 3 days/week."]
WeeksError ==
    [class |-> "ValueError", message |-> "This v0 generator expects 7 weeks."]
BeforeStartError ==
    [class |-> "ValueError", message |-> "goal_race_date must be on/after start_date."]
FinalWeekError ==
    [class |-> "ValueError", message |-> "goal_race_date must fall in the final week"]

\* the two failure kinds of the error taxonomy, by the raise that produces them
ConfigurationError == {DaysPerWeekError, WeeksError}
DateRangeError == {BeforeStartError, FinalWeekError}

\* --------------------------------------------------- generate: entry, checks
\* binding of the call's arguments to the declared parameters
\* (profile, start_date, goal_race_date, params): any other keyword is rejected
BindError(kw) == IF kw \subseteq {} THEN None ELSE TypeError

\* variant: the goal_race_date < start_date guard is missing
PreconditionError_NoDateCheck(p, start, goal) ==
    IF p.days_per_week # 3 THEN DaysPerWeekError
    ELSE IF p.weeks # 7 THEN WeeksError
    ELSE None

\* variant: the date guard placed before the configuration guards
PreconditionError_DateFirst(p, start, goal) ==
    IF goal < start THEN BeforeStartError
    ELSE IF p.days_per_week # 3 THEN DaysPerWeekError
    ELSE IF p.weeks # 7 THEN WeeksError
    ELSE None

\* the three guards at the top of the body, in source order
PreconditionError(p, start, goal) ==
    IF p.days_per_week # 3 THEN DaysPerWeekError
    ELSE IF p.weeks # 7 THEN WeeksError
    ELSE IF goal < start THEN BeforeStartError
    ELSE None

Call ==
    /\ pc = "calibrated"
    /\ \E start \in 0..MaxStartDay, off \in GoalOffsets,
          wk \in WeeksValues, dpw \in DaysPerWeekValues,
          dwi \in DownWeekIndexValues, cap \in LongCapValues,
          kw \in KwargSets :
          /\ start_date' = start
          /\ goal_race_date' = start + off
          /\ params' = PlanParams(wk, dpw, dwi, cap)
          /\ kwargs' = kw
          /\ IF BindError(kw) = None
             THEN pc' = "check" /\ error' = error
             ELSE pc' = "raised" /\ error' = BindError(kw)
    /\ UNCHANGED << cli, profile, locals, plan >>

CheckPreconditions ==
    /\ pc = "check"
    /\ LET e == PreconditionError(params, start_date, goal_race_date)
       IN  IF e = None
           THEN pc' = "volumes" /\ error' = error
           ELSE pc' = "raised" /\ error' = e
    /\ UNCHANGED << cli, profile, args, locals, plan >>

\* ------------------------------------------------------- weekly volumes
start_weekly_km(base) ==
    RMax(RInt(22), RMin(RInt(34), RMul(base, Rat(45, 10))))

\* variant: growth starts one week late (w > 1 instead of w > 0)
RECURSIVE WeeklyKmFrom_LateGrowth(_, _, _)
WeeklyKmFrom_LateGrowth(p, wi, current) ==
    IF wi >= p.weeks THEN << >>
    ELSE IF wi = p.weeks - 1
         THEN << current >> \o WeeklyKmFrom_LateGrowth(p, wi + 1, current)
         ELSE LET c == IF wi = p.down_week_index
                         THEN RMul(current, p.down_week_factor)
                       ELSE IF wi > 1
                         THEN RMul(current, RAdd(RInt(1), p.weekly_growth))
                       ELSE current
              IN  << c >> \o WeeklyKmFrom_LateGrowth(p, wi + 1, c)

\* variant: the cutback week is cut and then grown as well
RECURSIVE WeeklyKmFrom_CutbackAlsoGrows(_, _, _)
WeeklyKmFrom_CutbackAlsoGrows(p, wi, current) ==
    IF wi >= p.weeks THEN << >>
    ELSE IF wi = p.weeks - 1
         THEN << current >> \o WeeklyKmFrom_CutbackAlsoGrows(p, wi + 1, current)
         ELSE LET cut == IF wi = p.down_week_index
                         THEN RMul(current, p.down_week_factor) ELSE current
                  c == IF wi > 0
                       THEN RMul(cut, RAdd(RInt(1), p.weekly_growth)) ELSE cut
              IN  << c >> \o WeeklyKmFrom_CutbackAlsoGrows(p, wi + 1, c)

\* the loop over range(params.weeks), from index wi with running value current
RECURSIVE WeeklyKmFrom(_, _, _)
WeeklyKmFrom(p, wi, current) ==
    IF wi >= p.weeks THEN << >>
    ELSE IF wi = p.weeks - 1
         THEN << current >> \o WeeklyKmFrom(p, wi + 1, current)
         ELSE LET c == IF wi = p.down_week_index
                         THEN RMul(current, p.down_week_factor)
                       ELSE IF wi > 0
                         THEN RMul(current, RAdd(RInt(1), p.weekly_growth))
                       ELSE current
              IN  << c >> \o WeeklyKmFrom(p, wi + 1, c)

\* weekly_km[w] of the source is WeeklyKm(...)[w + 1]
WeeklyKm(prof, p) ==
    WeeklyKmFrom(p, 0, start_weekly_km(prof.baseline_race_distance_km))

PlanVolumes ==
    /\ pc = "volumes"
    /\ weekly_km' = WeeklyKm(profile, params)
    /\ w' = 0
    /\ pc' = "build"
    /\ UNCHANGED << cli, profile, args, km_intervals, km_tempo, km_long,
                    workouts, plan, error >>

\* ------------------------------------------------------ workout structures
IntervalTable ==
    [i \in 0..5 |-> CASE i = 0 -> << 5, 2, 2 >>
                      [] i = 1 -> << 6, 2, 2 >>
                      [] i = 2 -> << 6, 2, 2 >>
                      [] i = 3 -> << 5, 2, 2 >>
                      [] i = 4 -> << 5, 3, 2 >>
                      [] i = 5 -> << 6, 3, 2 >>]

_interval_structure_for_week(week_idx) ==
    LET row == IF week_idx \in DOMAIN IntervalTable
               THEN IntervalTable[week_idx] ELSE << 6, 2, 2 >>
    IN  [ warmup_min |-> 12, reps |-> row[1], work_min |-> row[2],
          rest_min |-> row[3], cooldown_min |-> 10,
          target |-> "interval_pace" ]

TempoMinutes ==
    [i \in 0..5 |-> CASE i = 0 -> 15
                      [] i = 1 -> 18
                      [] i = 2 -> 20
                      [] i = 3 -> 15
                      [] i = 4 -> 22
                      [] i = 5 -> 25]

_tempo_structure_for_week(week_idx) ==
    [ warmup_min |-> 10,
      tempo_min |-> IF week_idx \in DOMAIN TempoMinutes
                    THEN TempoMinutes[week_idx] ELSE 20,
      cooldown_min |-> 10,
      target |-> "threshold_pace" ]

long_struct == [ mode |-> "easy", target |-> "easy_pace_range" ]

easy_struct ==
    [ warmup_min |-> 0,
      strides |-> [count |-> 6, duration_sec |-> 20, recovery_sec |-> 90],
      target |-> "easy_pace_range" ]

sharp_struct ==
    [ warmup_min |-> 10, tempo_min |-> 12, cooldown_min |-> 10,
      target |-> "threshold_pace" ]

race_struct(p) == [ distance_km |-> p.hm_distance_km, target |-> "race" ]

\* the ScheduledWorkout that add_workout appends
add_workout(d, wtype, km, structure) ==
    [ date |-> d,
      type |-> wtype,
      sport |-> "run",
      structure |-> structure,
      target_distance_km |-> _round_km(km) ]

\* ------------------------------------------------------------ build weeks
\* variant: the long run is capped and the overflow is dropped
Allocate_DropOverflow(wk_total, p) ==
    [ km_intervals |-> RMul(wk_total, p.frac_intervals),
      km_tempo |-> RMul(wk_total, p.frac_tempo),
      km_long |-> RMin(RMul(wk_total, p.frac_long), p.long_cap_km) ]

\* variant: the overflow is shared between tempo and intervals
Allocate_SplitOverflow(wk_total, p) ==
    LET raw_long == RMul(wk_total, p.frac_long)
        km_long_capped == RMin(raw_long, p.long_cap_km)
        half == RMul(RSub(raw_long, km_long_capped), Rat(1, 2))
    IN  [ km_intervals |-> RAdd(RMul(wk_total, p.frac_intervals), half),
          km_tempo |-> RAdd(RMul(wk_total, p.frac_tempo), half),
          km_long |-> km_long_capped ]

\* session distances of one build week before rounding:
\* long run capped, overflow moved to tempo
Allocate(wk_total, p) ==
    LET raw_intervals == RMul(wk_total, p.frac_intervals)
        raw_tempo     == RMul(wk_total, p.frac_tempo)
        raw_long      == RMul(wk_total, p.frac_long)
        km_long_capped == RMin(raw_long, p.long_cap_km)
        overflow      == RSub(raw_long, km_long_capped)
    IN  [ km_intervals |-> raw_intervals,
          km_tempo |-> IF RLt(RInt(0), overflow)
                       THEN RAdd(raw_tempo, overflow) ELSE raw_tempo,
          km_long |-> km_long_capped ]

\* dates of the three sessions of build week wi
BuildDates(start, wi) ==
    LET week_start == start + 7 * wi
    IN  [ d_intervals |-> week_start + 1,
          d_tempo     |-> week_start + 3,
          d_long      |-> week_start + 6 ]

\* one iteration of the loop over range(params.weeks - 1)
BuildWeek ==
    /\ pc = "build"
    /\ w < params.weeks - 1
    /\ LET a == Allocate(weekly_km[w + 1], params)
           d == BuildDates(start_date, w)
       IN  /\ km_intervals' = a.km_intervals
           /\ km_tempo' = a.km_tempo
           /\ km_long' = a.km_long
           /\ workouts' = workouts \o
                << add_workout(d.d_intervals, "intervals", a.km_intervals,
                               _interval_structure_for_week(w)),
                   add_workout(d.d_tempo, "tempo", a.km_tempo,
                               _tempo_structure_for_week(w)),
                   add_workout(d.d_long, "long", a.km_long, long_struct) >>
    /\ w' = w + 1
    /\ UNCHANGED << pc, cli, profile, args, weekly_km, plan, error >>

\* -------------------------------------------------------------- race week
race_week_start(start, p) == start + 7 * (p.weeks - 1)
\* variant: the final week made one day too long
race_week_end_OffByOne(start, p) == race_week_start(start, p) + 7

race_week_end(start, p) == race_week_start(start, p) + 6

\* variant: the lower bound of the final-week check is missing
InFinalWeek_NoLowerBound(start, goal, p) ==
    goal <= race_week_end(start, p)

InFinalWeek(start, goal, p) ==
    race_week_start(start, p) <= goal /\ goal <= race_week_end(start, p)

\* the final-week check fails: raise
RaceWeekReject ==
    /\ pc = "build"
    /\ w = params.weeks - 1
    /\ ~InFinalWeek(start_date, goal_race_date, params)
    /\ pc' = "raised"
    /\ error' = FinalWeekError
    /\ UNCHANGED << cli, profile, args, locals, plan >>

\* variant: the sharpening tempo placed two days before the race
RaceWeekWorkouts_SharpTwoDaysOut(goal, p) ==
    << add_workout(goal - 5, "easy", p.race_week_easy_km, easy_struct),
       add_workout(goal - 2, "tempo", p.race_week_tempo_km, sharp_struct),
       add_workout(goal, "race", p.hm_distance_km, race_struct(p)) >>

RaceWeekWorkouts(goal, p) ==
    << add_workout(goal - 5, "easy", p.race_week_easy_km, easy_struct),
       add_workout(goal - 3, "tempo", p.race_week_tempo_km, sharp_struct),
       add_workout(goal, "race", p.hm_distance_km, race_struct(p)) >>

\* the final-week check passes: the three race-week workouts are appended
RaceWeekAppend ==
    /\ pc = "build"
    /\ w = params.weeks - 1
    /\ InFinalWeek(start_date, goal_race_date, params)
    /\ workouts' = workouts \o RaceWeekWorkouts(goal_race_date, params)
    /\ pc' = "assemble"
    /\ UNCHANGED << cli, profile, args, weekly_km, w, km_intervals, km_tempo,
                    km_long, plan, error >>

\* ------------------------------------------------------- sort and return
\* variant: the list is returned in append order
SortByDate_Unsorted(s) == s

\* list.sort(key=date): stable, ascending
RECURSIVE SortByDate(_)
SortByDate(s) ==
    IF s = << >> THEN << >>
    ELSE LET front == SortByDate(SubSeq(s, 1, Len(s) - 1))
             x == s[Len(s)]
             k == Cardinality({i \in 1..Len(front) : front[i].date <= x.date})
         IN  SubSeq(front, 1, k) \o << x >> \o SubSeq(front, k + 1, Len(front))

\* variant: the plan ends on the race day instead of the end of race week
TrainingPlan_EndAtRace(start, goal, p, ws) ==
    [ start_date |-> start,
      end_date |-> goal,
      goal_race_date |-> goal,
      workouts |-> ws ]

TrainingPlan(start, goal, p, ws) ==
    [ start_date |-> start,
      end_date |-> race_week_end(start, p),
      goal_race_date |-> goal,
      workouts |-> ws ]

SortAndReturn ==
    /\ pc = "assemble"
    /\ workouts' = SortByDate(workouts)
    /\ plan' = TrainingPlan(start_date, goal_race_date, params, workouts')
    /\ pc' = "done"
    /\ UNCHANGED << cli, profile, args, weekly_km, w, km_intervals, km_tempo,
                    km_long, error >>

\* ------------------------------------------------- command line: the dates
\* variant: a Monday is moved to the Monday after it (the % 7 is missing)
align_to_next_monday_NoMod(d) == d + (7 - weekday(d))

align_to_next_monday(d) ==
    LET days_ahead == (7 - weekday(d)) % 7
    IN  d + days_ahead

_monday_of_week(d) == d - weekday(d)

\* variant: the plan started seven weeks before the race week
CliStartFromRace_SevenWeeks(race_date) ==
    align_to_next_monday(_monday_of_week(race_date) - 7 * 7)

\* start_date derived from the race date: the Monday six weeks before the
\* Monday of the race's week
CliStartFromRace(race_date) ==
    LET race_week_monday == _monday_of_week(race_date)
    IN  align_to_next_monday(race_week_monday - 7 * 6)

\* race date of a plan derived from its start: timedelta(weeks=7, days=-1)
CliRaceFromStart(start) == start + (7 * 7 - 1)

\* the ways main() obtains the two dates
RaceDateModes == {"interactive", "stored_race", "race_only"}
StartDateModes == {"today", "start_only"}
CliModes == RaceDateModes \cup StartDateModes \cup {"both"}
\* race dates and start dates (or today's date) given to the command line
CliRaceDates == 0..(MaxStartDay + MaxGoalOffset)
CliStartDates == 0..MaxStartDay

CliDeriveDates ==
    /\ pc = "start"
    /\ \E mode \in CliModes, r \in CliRaceDates, s \in CliStartDates :
          \/ /\ mode \in RaceDateModes
             /\ cli' = [mode |-> mode, race_date |-> r]
             /\ start_date' = CliStartFromRace(r)
             /\ goal_race_date' = r
          \/ /\ mode \in StartDateModes
             /\ cli' = [mode |-> mode, start_date |-> s]
             /\ start_date' = align_to_next_monday(s)
             /\ goal_race_date' = CliRaceFromStart(start_date')
          \/ /\ mode = "both"
             /\ cli' = [mode |-> mode, start_date |-> s, race_date |-> r]
             /\ start_date' = align_to_next_monday(s)
             /\ goal_race_date' = r
    /\ pc' = "cli_dates"
    /\ UNCHANGED << profile, params, kwargs, locals, plan, error >>

CliCalibrate ==
    /\ pc = "cli_dates"
    /\ \E dist \in BaselineDistances, t \in BaselineTimes :
          profile' = calibrate_from_race(dist, t)
    /\ pc' = "cli_calibrated"
    /\ UNCHANGED << cli, args, locals, plan, error >>

\* main() calls generate with start_weekly_km= and current_long_run_km=
\* and without params, so the call would run under PlanParams()
CliGenerate ==
    /\ pc = "cli_calibrated"
    /\ kwargs' = ExtraKwargs
    /\ params' = PlanParams(7, 3, 3, RInt(20))
    /\ IF BindError(kwargs') = None
       THEN pc' = "check" /\ error' = error
       ELSE pc' = "raised" /\ error' = BindError(kwargs')
    /\ UNCHANGED << cli, profile, start_date, goal_race_date, locals, plan >>

Next ==
    \/ Calibrate
    \/ Call
    \/ CheckPreconditions
    \/ PlanVolumes
    \/ BuildWeek
    \/ RaceWeekReject
    \/ RaceWeekAppend
    \/ SortAndReturn
    \/ CliDeriveDates
    \/ CliCalibrate
    \/ CliGenerate

Spec == Init /\ [][Next]_vars

\* =================================================================== claims
Returned == pc = "done"
Raised == pc = "raised"
Finished == Returned \/ Raised
\* the call passes only the declared parameters
DeclaredCall == kwargs = {}
ValidConfig == params.days_per_week = 3 /\ params.weeks = 7
InWindow == start_date + 42 <= goal_race_date /\ goal_race_date <= start_date + 48
RaceIndices(ws) == {i \in DOMAIN ws : ws[i].type = "race"}

\* C1: every returned plan holds exactly one RACE workout, dated at
\* goal_race_date, and that date lies in [start_date+42, start_date+48].
C1_OneRaceInFinalWeek ==
    Returned =>
        /\ Cardinality(RaceIndices(plan.workouts)) = 1
        /\ plan.goal_race_date = goal_race_date
        /\ \A i \in RaceIndices(plan.workouts) :
              /\ plan.workouts[i].date = plan.goal_race_date
              /\ plan.start_date + 42 <= plan.workouts[i].date
              /\ plan.workouts[i].date <= plan.start_date + 48

C1_Witness ==
    /\ Returned
    /\ goal_race_date = start_date + 44
    /\ \E i \in DOMAIN plan.workouts :
          plan.workouts[i].type = "race" /\ plan.workouts[i].date = start_date + 44

\* C2: for a call passing the declared parameters, a goal_race_date before
\* start_date+42 or after start_date+48 always makes generate raise (a
\* ValueError, no plan), and with days_per_week = 3 and weeks = 7 the error is
\* the date-range one; with that configuration every goal_race_date in
\* [start_date+42, start_date+48] returns a plan.
C2_DateRangeError ==
    (Finished /\ DeclaredCall) =>
        /\ ~InWindow => (Raised /\ error.class = "ValueError" /\ plan = None)
        /\ (~InWindow /\ ValidConfig) => error \in DateRangeError
        /\ (InWindow /\ ValidConfig) => (Returned /\ plan # None /\ error = None)

C2_Witness ==
    /\ Raised /\ DeclaredCall /\ ValidConfig
    /\ goal_race_date = start_date + 49
    /\ error = FinalWeekError

\* C3 as stated: whenever generate raises a validation error, no workout has
\* been constructed by the call.
C3_AsStated ==
    (Raised /\ error \in (ConfigurationError \cup DateRangeError)) =>
        Len(workouts) = 0

\* C3 amended: the days_per_week, weeks and goal_race_date < start_date
\* failures are raised with no workout constructed; the final-week window
\* failure is raised after the 3 * 6 build-week workouts were constructed and
\* before any race-week workout; in every case no plan is returned.
C3_RaiseTiming ==
    Raised =>
        /\ plan = None
        /\ (DeclaredCall /\ (~ValidConfig \/ goal_race_date < start_date))
              => Len(workouts) = 0
        /\ (DeclaredCall /\ ValidConfig /\ goal_race_date >= start_date /\ ~InWindow)
              => /\ error = FinalWeekError
                 /\ Len(workouts) = 18
                 /\ \A i \in DOMAIN workouts :
                       workouts[i].type \in {"intervals", "tempo", "long"}

C3_Witness ==
    /\ Raised /\ error = FinalWeekError
    /\ goal_race_date = start_date + 41
    /\ Len(workouts) = 18

\* C4: with days_per_week # 3 or weeks # 7 generate fails with a
\* configuration error whatever the dates are, also when goal_race_date is
\* before start_date: the configuration checks come first.
C4_ConfigurationFirst ==
    (DeclaredCall /\ pc \in {"volumes", "build", "assemble", "done", "raised"}
        /\ ~ValidConfig) =>
        /\ Raised
        /\ error \in ConfigurationError
        /\ params.days_per_week # 3 => error = DaysPerWeekError

C4_Witness ==
    /\ Raised /\ DeclaredCall
    /\ params.weeks # 7 /\ params.days_per_week = 3
    /\ goal_race_date < start_date
    /\ error = WeeksError

\* C5: every returned plan spans exactly 48 days from start_date to end_date,
\* wherever in the final week the race falls.
C5_PlanSpans48Days ==
    Returned => plan.end_date - plan.start_date = 48

C5_Witness ==
    /\ Returned
    /\ plan.goal_race_date = plan.start_date + 42
    /\ plan.end_date = plan.start_date + 48

\* C6 as stated: in the 7 weekly volumes, volume[w] > volume[w-1] for every
\* w in 1..6, except at the cutback index, where volume[w] < volume[w-1].
C6_AsStated ==
    Len(weekly_km) = 7 =>
        \A wi \in 1..6 :
            IF wi = params.down_week_index
            THEN RLt(weekly_km[wi + 1], weekly_km[wi])
            ELSE RLt(weekly_km[wi], weekly_km[wi + 1])

\* C6 amended (growth 0.08, cutback factor 0.80): volume[w] > volume[w-1]
\* for every w in 1..5 except at the cutback index, where
\* volume[w] < volume[w-1]; volume[6] equals volume[5].
C6_VolumesGrowExceptCutback ==
    Len(weekly_km) = 7 =>
        /\ \A wi \in 1..5 :
              IF wi = params.down_week_index
              THEN RLt(weekly_km[wi + 1], weekly_km[wi])
              ELSE RLt(weekly_km[wi], weekly_km[wi + 1])
        /\ weekly_km[7] = weekly_km[6]

C6_Witness ==
    /\ pc = "build"
    /\ Len(weekly_km) = 7
    /\ params.down_week_index = 3
    /\ RLt(weekly_km[4], weekly_km[3])
    /\ RLt(weekly_km[4], weekly_km[5])

\* C7: after each build week, the unrounded intervals, tempo and long
\* distances (long run capped, overflow moved to tempo) add up to that
\* week's planned volume.
C7_SessionsSumToVolume ==
    (w >= 1 /\ Len(weekly_km) = 7) =>
        RAdd(RAdd(km_intervals, km_tempo), km_long) = weekly_km[w]

\* a build week in which the long run was capped
C7_Witness ==
    /\ pc = "build" /\ w >= 1
    /\ km_long = params.long_cap_km
    /\ RLt(params.long_cap_km, RMul(weekly_km[w], params.frac_long))
    /\ RLt(RMul(weekly_km[w], params.frac_tempo), km_tempo)

\* C8: the calibrated paces are ordered interval < threshold < easy_min <
\* easy_max, with threshold 8 s/km above race pace, easy_min 40 and easy_max
\* 80 above threshold, and interval 15 below threshold.
C8_PaceOrdering ==
    profile # None =>
        LET ps == profile.paces
            race_pace == RDiv(profile.baseline_race_time_sec,
                              profile.baseline_race_distance_km)
        IN  /\ RLt(ps.interval, ps.threshold)
            /\ RLt(ps.threshold, ps.easy_min)
            /\ RLt(ps.easy_min, ps.easy_max)
            /\ RSub(ps.threshold, race_pace) = RInt(8)
            /\ RSub(ps.easy_min, ps.threshold) = RInt(40)
            /\ RSub(ps.easy_max, ps.threshold) = RInt(80)
            /\ RSub(ps.threshold, ps.interval) = RInt(15)

\* 5.0 km in 1200 s: 248 / 288 / 328 / 233 s/km
C8_Witness ==
    /\ profile # None
    /\ profile.baseline_race_distance_km = RInt(5)
    /\ profile.paces.threshold = RInt(248)
    /\ profile.paces.interval = RInt(233)

\* C9: a call that passes start_weekly_km and current_long_run_km with a
\* valid start_date / goal_race_date pair returns a plan with at least one
\* workout.
C9_PersonalizedCallReturnsPlan ==
    (Finished /\ kwargs = ExtraKwargs /\ ValidConfig /\ InWindow) =>
        (Returned /\ Len(plan.workouts) > 0)

\* C10: the workouts of every returned plan are in non-decreasing date order.
C10_WorkoutsSortedByDate ==
    Returned =>
        \A i \in 1..(Len(plan.workouts) - 1) :
            plan.workouts[i].date <= plan.workouts[i + 1].date

\* race on the first day of the final week: the goal-5 workout is dated
\* between the Tuesday and Thursday sessions of the last build week
C10_Witness ==
    /\ Returned
    /\ goal_race_date = start_date + 42
    /\ \E i \in 1..(Len(plan.workouts) - 2) :
          /\ plan.workouts[i].type = "intervals"
          /\ plan.workouts[i + 1].type = "easy"
          /\ plan.workouts[i + 2].type = "tempo"
          /\ plan.workouts[i].date = start_date + 36
          /\ plan.workouts[i + 1].date = start_date + 37
          /\ plan.workouts[i + 2].date = start_date + 38

\* C11: align_to_next_monday(d) is a Monday m with d <= m <= d + 6, and
\* m = d when d is a Monday (so aligning twice changes nothing).
C11_AlignToNextMonday ==
    (cli # None /\ cli.mode \in (StartDateModes \cup {"both"})) =>
        LET d == cli.start_date
            m == start_date
        IN  /\ weekday(m) = 0
            /\ d <= m /\ m <= d + 6
            /\ weekday(d) = 0 => m = d
            /\ align_to_next_monday(m) = m

\* a Wednesday is moved to the following Monday
C11_Witness ==
    /\ cli # None /\ cli.mode = "start_only"
    /\ cli.start_date = 2
    /\ start_date = 7

\* the seed of the weekly volumes: baseline * 4.5 clamped to [22, 34]
SeedVolume ==
    LET x == RMul(profile.baseline_race_distance_km, Rat(9, 2))
    IN  IF RLt(x, RInt(22)) THEN RInt(22)
        ELSE IF RLt(RInt(34), x) THEN RInt(34) ELSE x

\* volume[wi] as the fold gives it from volume[wi-1], for wi in 1..5
FoldStep(wi) ==
    IF wi = params.down_week_index
    THEN weekly_km[wi + 1] = RMul(weekly_km[wi], params.down_week_factor)
    ELSE weekly_km[wi + 1] =
            RMul(weekly_km[wi], RAdd(RInt(1), params.weekly_growth))

\* C12 as stated: for any cutback index, volume[0] is the seed, volume[w]
\* for w in 1..5 is volume[w-1] times the cutback factor at the cutback index
\* and times (1 + growth) elsewhere, and volume[6] = volume[5].
C12_AsStated ==
    Len(weekly_km) = 7 =>
        /\ weekly_km[1] = SeedVolume
        /\ \A wi \in 1..5 : FoldStep(wi)
        /\ weekly_km[7] = weekly_km[6]

\* C12 amended: volume[0] is the seed, except that with cutback index 0 it
\* is the seed times the cutback factor; volume[w] for w in 1..5 and
\* volume[6] as stated.
C12_VolumesAreAFold ==
    Len(weekly_km) = 7 =>
        /\ weekly_km[1] = IF params.down_week_index = 0
                          THEN RMul(SeedVolume, params.down_week_factor)
                          ELSE SeedVolume
        /\ \A wi \in 1..5 : FoldStep(wi)
        /\ weekly_km[7] = weekly_km[6]

\* cutback at index 3: week 4 grows from the cut value and stays below week 2
C12_Witness ==
    /\ pc = "build" /\ Len(weekly_km) = 7
    /\ params.down_week_index = 3
    /\ weekly_km[1] = RInt(34)
    /\ weekly_km[5] = RMul(weekly_km[4], Rat(27, 25))
    /\ RLt(weekly_km[5], weekly_km[3])

\* C13: after each build week, long = min(volume * frac_long, cap) <= cap,
\* tempo = volume * frac_tempo plus the whole excess of the raw long run over
\* the cap, and intervals = volume * frac_intervals, cap hit or not.
C13_OverflowGoesToTempo ==
    (w >= 1 /\ Len(weekly_km) = 7) =>
        LET v == weekly_km[w]
            raw_long == RMul(v, params.frac_long)
            hit == RLt(params.long_cap_km, raw_long)
        IN  /\ km_long = IF hit THEN params.long_cap_km ELSE raw_long
            /\ RLe(km_long, params.long_cap_km)
            /\ km_tempo = IF hit
                          THEN RAdd(RMul(v, params.frac_tempo),
                                    RSub(raw_long, params.long_cap_km))
                          ELSE RMul(v, params.frac_tempo)
            /\ km_intervals = RMul(v, params.frac_intervals)

\* the default 20 km cap is hit (no cutback before week 6, 10 km baseline)
C13_Witness ==
    /\ pc = "build" /\ w = 6
    /\ params.long_cap_km = RInt(20)
    /\ km_long = RInt(20)
    /\ RLt(RInt(20), RMul(weekly_km[6], params.frac_long))
    /\ km_intervals = RMul(weekly_km[6], Rat(1, 4))

CountOf(ws, t) == Cardinality({i \in DOMAIN ws : ws[i].type = t})
CountAt(ws, t, d) ==
    Cardinality({i \in DOMAIN ws : ws[i].type = t /\ ws[i].date = d})

\* the composition of a returned plan: per build week one INTERVALS, one
\* TEMPO and one LONG workout, and the three race-week workouts
PlanComposition ==
    LET ws == plan.workouts
    IN  /\ \A wk \in 0..5 :
              /\ CountAt(ws, "intervals", start_date + 7 * wk + 1) = 1
              /\ CountAt(ws, "tempo", start_date + 7 * wk + 3) = 1
              /\ CountAt(ws, "long", start_date + 7 * wk + 6) = 1
        /\ CountOf(ws, "intervals") = 6
        /\ CountOf(ws, "long") = 6
        /\ CountOf(ws, "tempo") = 7
        /\ CountOf(ws, "easy") = 1
        /\ CountOf(ws, "race") = 1
        /\ \E i \in DOMAIN ws :
              /\ ws[i].type = "easy"
              /\ ws[i].date = goal_race_date - 5
              /\ ws[i].target_distance_km = params.race_week_easy_km
        /\ Cardinality({i \in DOMAIN ws :
                           /\ ws[i].type = "tempo"
                           /\ ws[i].structure.tempo_min = 12}) = 1
        /\ \E i \in DOMAIN ws :
              /\ ws[i].type = "tempo"
              /\ ws[i].date = goal_race_date - 3
              /\ ws[i].structure.tempo_min = 12
              /\ ws[i].structure.warmup_min = 10
              /\ ws[i].structure.cooldown_min = 10
        /\ \E i \in DOMAIN ws :
              ws[i].type = "race" /\ ws[i].date = goal_race_date

\* C14 as stated: every returned plan has exactly 18 workouts, made of the
\* 6 * 3 build-week workouts plus the three race-week workouts.
C14_AsStated ==
    Returned => (Len(plan.workouts) = 18 /\ PlanComposition)

\* C14 amended: every returned plan has exactly 21 workouts: the 6 * 3
\* build-week workouts plus the three race-week workouts (EASY at goal-5,
\* TEMPO at goal-3 with tempo_min 12 and 10/10 warmup/cooldown, RACE at goal).
C14_TwentyOneWorkouts ==
    Returned => (Len(plan.workouts) = 21 /\ PlanComposition)

C14_Witness ==
    /\ Returned
    /\ goal_race_date = start_date + 48
    /\ Len(plan.workouts) = 21
    /\ plan.workouts[19].type = "easy"
    /\ plan.workouts[20].type = "tempo"
    /\ plan.workouts[21].type = "race"

\* a and b differ by at most 0.25
Within025(a, b) ==
    RLe(RSub(a, b), Rat(1, 4)) /\ RLe(RSub(b, a), Rat(1, 4))

\* C15: every target_distance_km is a multiple of 0.5 km within 0.25 km of
\* the unrounded session distance; the race's 21.1 km becomes 21.0.
C15_RoundedToHalfKm ==
    /\ \A i \in DOMAIN workouts : workouts[i].target_distance_km.d \in {1, 2}
    /\ (pc = "build" /\ w >= 1) =>
          LET n == Len(workouts)
          IN  /\ Within025(workouts[n - 2].target_distance_km, km_intervals)
              /\ Within025(workouts[n - 1].target_distance_km, km_tempo)
              /\ Within025(workouts[n].target_distance_km, km_long)
    /\ Returned =>
          \A i \in DOMAIN plan.workouts :
              LET x == plan.workouts[i]
              IN  /\ x.type = "race" =>
                        /\ x.target_distance_km = RInt(21)
                        /\ Within025(x.target_distance_km, params.hm_distance_km)
                  /\ x.type = "easy" =>
                        Within025(x.target_distance_km, params.race_week_easy_km)
                  /\ (x.type = "tempo" /\ x.date = goal_race_date - 3) =>
                        Within025(x.target_distance_km, params.race_week_tempo_km)

\* the race is stored as 21.0 km while its structure keeps 21.1 km, and a
\* build-week distance was changed by the rounding
C15_Witness ==
    /\ Returned
    /\ \E i \in DOMAIN plan.workouts :
          /\ plan.workouts[i].type = "race"
          /\ plan.workouts[i].target_distance_km = RInt(21)
          /\ plan.workouts[i].structure.distance_km = Rat(211, 10)
    /\ goal_race_date = start_date + 48
    /\ plan.workouts[18].type = "long"
    /\ plan.workouts[18].target_distance_km # km_long

\* C16: in every returned plan the build-week INTERVALS workouts are dated
\* on a Tuesday, the build-week TEMPO workouts on a Thursday and the LONG
\* workouts on a Sunday, whatever start_date the call was given.
C16_BuildSessionsOnTueThuSun ==
    Returned =>
        \A i \in DOMAIN plan.workouts :
            LET x == plan.workouts[i]
            IN  /\ x.type = "intervals" => weekday(x.date) = 1
                /\ (x.type = "tempo" /\ x.structure.tempo_min # 12)
                      => weekday(x.date) = 3
                /\ x.type = "long" => weekday(x.date) = 6

\* C17: when main() derives start_date from a race date, start_date is a
\* Monday and the race date lies in [start_date+42, start_date+48], so the
\* call to generate does not fail the final-week check.
C17_CliStartFitsRace ==
    (cli # None /\ cli.mode \in RaceDateModes) =>
        /\ goal_race_date = cli.race_date
        /\ weekday(start_date) = 0
        /\ start_date + 42 <= goal_race_date
        /\ goal_race_date <= start_date + 48
        /\ Raised => /\ error # FinalWeekError
                     /\ InFinalWeek(start_date, goal_race_date, params)

\* a Thursday race: the plan starts on the Monday 45 days before it
C17_Witness ==
    /\ cli # None /\ cli.mode = "race_only"
    /\ cli.race_date = 45
    /\ start_date = 0
    /\ Raised

\* C18: in every returned plan no two workouts share a calendar date.
C18_NoTwoWorkoutsOnOneDate ==
    Returned =>
        \A i, j \in DOMAIN plan.workouts :
            i # j => plan.workouts[i].date # plan.workouts[j].date

====
